---- MODULE Spec2Model ----
(***************************************************************************)
(* openwhisk-action-manager: deployment of a directory of actions to an    *)
(* OpenWhisk package.                                                      *)
(*                                                                         *)
(*   Spec       the program of src/index.js: package call, then one        *)
(*              promise chain per action directory (Promise.all).          *)
(*   SpecTasks  the task library of src/tasks.js, sequenced one action at  *)
(*              a time and followed by openwhisk$delete_actions.           *)
(*                                                                         *)
(* The OpenWhisk platform is the environment.  It keeps, per action, the   *)
(* uploaded code and an annotation map (one value per key).                *)
(***************************************************************************)
EXTENDS Integers, Sequences, FiniteSets, TLC

\* ------------------------------------------------------------------ bounds
MaxRuns == 2

\* --------------------------------------------------------------- universe
Dirs == {"a", "b"}            \* local action directories (basename = name)
Names == {"a", "b", "c", "d"} \* action names the platform may hold
Contents == {"v1", "v2"}      \* deployable content of an action directory
DirOrder == <<"a", "b">>      \* directory listing order

\* package_name and the namespaces reported by actions.list(), as character
\* sequences: String.prototype.indexOf is a substring search.
package_name == <<"p">>
other_package == <<"p", "x">>
Namespace(pkg) == <<"g", "/">> \o pkg

\* md5(): an injective digest on Contents; never equal to the 'n/a' default.
md5(c) == CASE c = "v1" -> "f1" [] c = "v2" -> "f2" [] OTHER -> "f0"

Absent == [exists |-> FALSE, code |-> "none", annotations |-> <<>>]
Md5Annotation(v) == [key |-> "md5sum", value |-> v]

\* ------------------------------------------- the files of one directory
MaxEdits == 1

\* Regular files an action directory may hold, and the directories above them.
Files == {".env", "index.js", "mytest.js", "node_modules/m.js", "test/a.js"}
Entries == Files \cup {"node_modules", "test"}
FileContents == Contents \cup {"none"}

\* A path as its segments, a segment as its pieces (a piece is a literal run
\* of characters; "." is the leading dot of a hidden name).
segments(p) ==
  CASE p = ".env"              -> << <<".", "env">> >>
    [] p = "index.js"          -> << <<"index.js">> >>
    [] p = "mytest.js"         -> << <<"my", "test.js">> >>
    [] p = "node_modules"      -> << <<"node_modules">> >>
    [] p = "node_modules/m.js" -> << <<"node_modules">>, <<"m.js">> >>
    [] p = "test"              -> << <<"test">> >>
    [] p = "test/a.js"         -> << <<"test">>, <<"a.js">> >>

\* The patterns of the configuration (README), parsed the same way; "*" is
\* the star, the segment <<"**">> the globstar.
action_md5sum_excludes == <<"node_modules/**", "*test.js", "test/**">>
action_zip_excludes == <<"*test.js", "test/**">>
Patterns == {"**", "node_modules/**", "*test.js", "test/**"}
\* The two lists as configured, and each in the place of the other.
ExcludeConfigurations ==
  { [md5sum |-> action_md5sum_excludes, zip |-> action_zip_excludes],
    [md5sum |-> action_zip_excludes, zip |-> action_md5sum_excludes] }

pattern_segments(pattern) ==
  CASE pattern = "**"              -> << <<"**">> >>
    [] pattern = "node_modules/**" -> << <<"node_modules">>, <<"**">> >>
    [] pattern = "*test.js"        -> << <<"*", "test.js">> >>
    [] pattern = "test/**"         -> << <<"test">>, <<"**">> >>

\* minimatch, one segment: the star takes any run of pieces; a name with a
\* leading dot is matched only by a pattern that spells the dot (dot: false).
RECURSIVE match_pieces(_, _)
match_pieces(pat, seg) ==
  IF pat = <<>> THEN seg = <<>>
  ELSE IF Head(pat) = "*"
       THEN \E k \in 0..Len(seg) :
              match_pieces(Tail(pat), SubSeq(seg, k + 1, Len(seg)))
       ELSE seg # <<>> /\ Head(seg) = Head(pat)
            /\ match_pieces(Tail(pat), Tail(seg))

hidden(seg) == Head(seg) = "."

match_segment(pat, seg) ==
  /\ hidden(seg) => Head(pat) = "."
  /\ match_pieces(pat, seg)

\* minimatch, the path (matchOne): a globstar takes any number of segments
\* none of which is hidden; a trailing globstar needs a segment to take.
RECURSIVE match_one(_, _)
match_one(pat, file) ==
  IF pat = <<>> THEN file = <<>>
  ELSE IF file = <<>> THEN FALSE
  ELSE IF Head(pat) = <<"**">>
       THEN IF Len(pat) = 1
            THEN \A i \in 1..Len(file) : ~hidden(file[i])
            ELSE \E k \in 0..Len(file) :
                   /\ \A i \in 1..k : ~hidden(file[i])
                   /\ match_one(Tail(pat), SubSeq(file, k + 1, Len(file)))
       ELSE match_segment(Head(pat), Head(file))
            /\ match_one(Tail(pat), Tail(file))

\* minimatch(file, pattern), for every entry and pattern there is
matches ==
  [file \in Entries, pattern \in Patterns |->
     match_one(pattern_segments(pattern), segments(file))]
minimatch(file, pattern) == matches[file, pattern]

\* The entries a tree holds: its files, and each directory with a file in it.
present(tree) ==
  {f \in Files : tree[f] # "none"}
    \cup {e \in Entries \ Files :
            \E f \in Files : tree[f] # "none" /\ Len(segments(f)) > 1
                             /\ segments(f)[1] = segments(e)[1]}

\* Orders in which the operating system may report the entries.
alphabetical ==
  <<".env", "index.js", "mytest.js", "node_modules", "node_modules/m.js",
    "test", "test/a.js">>
TraversalOrders ==
  { alphabetical,
    [i \in 1..Len(alphabetical) |-> alphabetical[Len(alphabetical) + 1 - i]],
    <<"test", "test/a.js", "index.js", ".env", "node_modules",
      "node_modules/m.js", "mytest.js">> }

\* glob.sync without the sort of its result.
glob_sync_nosort(pattern, tree, order) ==
  SelectSeq(order, LAMBDA e : e \in present(tree) /\ minimatch(e, pattern))

\* glob.sync(pattern, {cwd}): the entries that match, sorted (nosort is not
\* set), whatever the order the directories were read in.
glob_sync(pattern, tree, order) ==
  LET found == {e \in present(tree) :
                  \E i \in 1..Len(order) : order[i] = e /\ minimatch(e, pattern)}
  IN  SelectSeq(alphabetical, LAMBDA e : e \in found)

ignored(file, ignorelist) ==
  \E i \in 1..Len(ignorelist) : minimatch(file, ignorelist[i])

\* read_filelist with the ignorelist left unused.
read_filelist_unfiltered(tree, order, ignorelist, filetype) ==
  LET listed == glob_sync("**", tree, order)
  IN  SelectSeq(listed, LAMBDA file :
        \/ filetype = "*"
        \/ filetype = "d" /\ file \notin Files
        \/ filetype = "f" /\ file \in Files)

\* read_filelist(directory, ignorelist, filetype), recursive
read_filelist(tree, order, ignorelist, filetype) ==
  LET listed == glob_sync("**", tree, order)
      kept == SelectSeq(listed, LAMBDA file : ~ignored(file, ignorelist))
  IN  SelectSeq(kept, LAMBDA file :
        \/ filetype = "*"
        \/ filetype = "d" /\ file \notin Files
        \/ filetype = "f" /\ file \in Files)

\* md5 of a string of digests: collision free, so it stands for the sequence
\* of the digests that were concatenated.
md5_of_hashes(files_hash) == <<"md5">> \o files_hash

\* create_md5sum: the digests of the listed files in the listed order,
\* concatenated, and the digest of that.
files_md5sum(tree, order, ignorelist) ==
  LET listed == read_filelist(tree, order, ignorelist, "f")
      files_hash == [i \in 1..Len(listed) |-> md5(tree[listed[i]])]
  IN  md5_of_hashes(files_hash)

NoMd5 == [done |-> FALSE, tree |-> [f \in Files |-> "none"], files |-> <<>>,
          sorted |-> TRUE, hash |-> <<>>]
NoZip == [done |-> FALSE, files |-> <<>>]
FsInit ==
  [tree |-> [f \in Files |-> "none"], md5_ignorelist |-> action_md5sum_excludes,
   zip_ignorelist |-> action_zip_excludes, edits |-> 0, md5 |-> NoMd5, zip |-> NoZip]

VARIABLES
  local,          \* [Dirs -> Contents]: the local tree
  remote,         \* [Names -> action record]: actions of the target package
  foreign,        \* names of the actions of other_package (never mutated)
  platformKeeps,  \* a code-only overwrite keeps the action's annotations
  run,            \* the process: [no, state, killed, root]
  chain,          \* [Dirs -> ...]: position and locals of each action's chain
  calls,          \* remote calls issued in this run
  recon,          \* openwhisk$delete_actions: [pc, orphans, queue, listed, failed]
  hist,           \* what earlier runs did: [prevDone, broken]
  fs,             \* one action directory's files and what was computed of them
  config          \* [Dirs -> Names]: the name openwhisk.action.json gives each directory

vars == <<local, remote, foreign, platformKeeps, run, chain, calls, recon, hist, fs, config>>

\* The names of the directories when no openwhisk.action.json names them,
\* and when the file of every directory gives the name "a".
basenames == [d \in Dirs |-> d]
ActionNameConfigurations == {basenames, [d \in Dirs |-> "a"]}

\* action_info of check_action_from_dir: the name defaults to the basename
\* and is overridden by openwhisk.action.json; directory "a" also configures
\* an annotation.
action_info(d) ==
  [name |-> config[d],
   annotations |-> IF d = "a" THEN <<[key |-> "web", value |-> "yes"]>> ELSE <<>>]

\* ----------------------------------------------------------------- lodash
\* _.groupBy(collection, 'key')[k]
groupBy(annotations, k) == SelectSeq(annotations, LAMBDA e : e.key = k)

\* _.get(object, 'md5sum[0].value', dflt) on the grouped annotations
get_first_value(annotations, k, dflt) ==
  LET group == groupBy(annotations, k)
  IN  IF Len(group) > 0 THEN group[1].value ELSE dflt

\* array[prop] for a property name: an array has 'length' and no other named
\* property.
array_property(array, prop) ==
  IF prop = "length" THEN <<"defined", Len(array)>> ELSE <<"undefined">>

\* _.get(object, 'md5sum.value', dflt) on the grouped annotations: the group
\* of a key is an array (or missing), and the path asks for its property.
get_array_property(annotations, k, prop, dflt) ==
  LET group == groupBy(annotations, k)
      v == array_property(group, prop)
  IN  IF Len(group) = 0 \/ v[1] = "undefined" THEN dflt ELSE v[2]

\* String.prototype.indexOf(needle) on character sequences
indexOf(s, needle) ==
  LET hits == {i \in 0..(Len(s) - Len(needle)) :
                 SubSeq(s, i + 1, i + Len(needle)) = needle}
  IN  IF hits = {} THEN -1 ELSE CHOOSE i \in hits : \A j \in hits : i <= j

\* --------------------------------------------------------------- platform
\* The annotation map of the platform: of several entries with one key the
\* last one stands.
ToMap(annotations) ==
  LET keep(i) == \A j \in (i + 1)..Len(annotations) :
                    annotations[j].key # annotations[i].key
      F[i \in 0..Len(annotations)] ==
        IF i = 0 THEN <<>>
        ELSE IF keep(i) THEN Append(F[i - 1], annotations[i]) ELSE F[i - 1]
  IN  F[Len(annotations)]

\* actions.create({name, overwrite: true, action: <Buffer>})
PlatformPutCode(r, n, code) ==
  [r EXCEPT ![n] = [exists |-> TRUE, code |-> code,
                    annotations |-> IF r[n].exists /\ platformKeeps
                                    THEN r[n].annotations ELSE <<>>]]

\* actions.update({name, overwrite: true, action: {annotations, ...}})
PlatformPutAnnotations(r, n, annotations) ==
  [r EXCEPT ![n].annotations = ToMap(annotations)]

\* the md5sum the platform holds for an action, "none" if it holds none
Recorded(rec) ==
  IF \E i \in 1..Len(rec.annotations) : rec.annotations[i].key = "md5sum"
  THEN (CHOOSE e \in {rec.annotations[i] : i \in 1..Len(rec.annotations)} :
          e.key = "md5sum").value
  ELSE "none"

\* ------------------------------------------------------------------ state
ChainInit ==
  [pc |-> "idle", npmError |-> FALSE, archive |-> "none", md5sum |-> "none",
   update |-> FALSE, action |-> Absent, result |-> <<>>]

CallsInit ==
  [package |-> 0, packaged |-> "no", creates |-> [n \in Names |-> 0], updates |-> [n \in Names |-> 0],
   deletes |-> <<>>]

ReconInit ==
  [pc |-> "idle", orphans |-> <<>>, queue |-> <<>>, listed |-> {}, failed |-> <<>>]

Uploaded(c) == [exists |-> TRUE, code |-> c, annotations |-> <<Md5Annotation(md5(c))>>]

\* Remote states left by earlier complete runs: an action is absent or
\* carries the code of some earlier tree with its md5sum.
TypeRemoteInit ==
  {r \in [Names -> {Absent} \cup {Uploaded(c) : c \in Contents}] :
     \A n \in Names \ {"a"} : r[n] \in {Absent, Uploaded("v1")}}

InitCommon(roots, configurations) ==
  /\ local \in [Dirs -> Contents]
  /\ remote \in TypeRemoteInit
  /\ platformKeeps \in BOOLEAN
  /\ run \in {[no |-> 1, state |-> "init", killed |-> FALSE, root |-> r] : r \in roots}
  /\ chain = [d \in Dirs |-> ChainInit]
  /\ calls = CallsInit
  /\ recon = ReconInit
  /\ hist = [prevDone |-> FALSE, broken |-> FALSE]
  /\ fs = FsInit
  /\ config \in configurations

\* run.root: the deployment root exists and is a directory.
Init ==
  /\ InitCommon(BOOLEAN, {basenames})
  /\ foreign = {}

Running == ~run.killed
InFlight(d) == chain[d].pc \notin {"idle", "resolved", "rejected"}
Terminal(d) == chain[d].pc \in {"resolved", "rejected"}

\* ======================================================== src/index.js
\* check_package_from_dir without the test of the directory.
check_package_from_dir_untested ==
  /\ Running /\ run.state = "init"
  /\ run' = [run EXCEPT !.state = "package"]
  /\ calls' = [calls EXCEPT !.package = @ + 1]
  /\ UNCHANGED <<config, fs, local, remote, foreign, platformKeeps, chain, recon, hist>>

\* check_package_from_dir: when the root is a directory check_package is
\* called, otherwise an Error is thrown and the run's promise rejects.
check_package_from_dir ==
  /\ Running /\ run.state = "init"
  /\ IF run.root
     THEN /\ run' = [run EXCEPT !.state = "package"]
          /\ calls' = [calls EXCEPT !.package = @ + 1]
     ELSE /\ run' = [run EXCEPT !.state = "failed"]
          /\ calls' = calls
  /\ UNCHANGED <<config, fs, local, remote, foreign, platformKeeps, chain, recon, hist>>

\* check_package: ow.packages.create resolves or rejects.
check_package ==
  /\ Running /\ run.state = "package"
  /\ \E ok \in BOOLEAN :
       /\ run' = [run EXCEPT !.state = IF ok THEN "created" ELSE "failed"]
       /\ calls' = [calls EXCEPT !.packaged = IF ok THEN "ok" ELSE "failed"]
  /\ UNCHANGED <<config, fs, local, remote, foreign, platformKeeps, chain, recon, hist>>

\* check_actions_from_dir called without waiting for check_package.
check_actions_from_dir_not_chained ==
  /\ Running /\ run.state \in {"package", "created"}
  /\ chain' = [d \in Dirs |-> [ChainInit EXCEPT !.pc = "npm"]]
  /\ run' = [run EXCEPT !.state = "actions"]
  /\ UNCHANGED <<config, fs, local, remote, foreign, platformKeeps, calls, recon, hist>>

\* check_actions_from_dir: Promise.all(_.map(files, check_action_from_dir)):
\* every directory's chain is started, each begins with npm install.
check_actions_from_dir ==
  /\ Running /\ run.state = "created"
  /\ chain' = [d \in Dirs |-> [ChainInit EXCEPT !.pc = "npm"]]
  /\ run' = [run EXCEPT !.state = "actions"]
  /\ UNCHANGED <<config, fs, local, remote, foreign, platformKeeps, calls, recon, hist>>

\* check_action$npm_install: the exec callback resolves whatever `error` is.
check_action_npm_install(d) ==
  /\ Running /\ chain[d].pc = "npm"
  /\ \E error \in BOOLEAN :
       chain' = [chain EXCEPT ![d].pc = "archive", ![d].npmError = error]
  /\ UNCHANGED <<config, fs, local, remote, foreign, platformKeeps, run, calls, recon, hist>>

\* check_action$create_archive: resolves with the archive of the directory,
\* or rejects when a synchronous step throws.
check_action_create_archive(d) ==
  /\ Running /\ chain[d].pc = "archive"
  /\ \E ok \in BOOLEAN :
       IF ok
       THEN /\ chain' = [chain EXCEPT ![d].pc = "check", ![d].archive = local[d]]
            /\ run' = run
       ELSE /\ chain' = [chain EXCEPT ![d].pc = "rejected"]
            /\ run' = [run EXCEPT !.state = "failed"]
  /\ UNCHANGED <<config, fs, local, remote, foreign, platformKeeps, calls, recon, hist>>

\* check_action$update_action$check_existing
index_existing_md5sum(annotations) ==
  get_array_property(annotations, "md5sum", "value", "n/a")

\* check_action$update_action$check_existing without its .catch: a rejected
\* get rejects the chain.
check_action_update_action_check_existing_no_catch(d) ==
  /\ Running /\ chain[d].pc = "check"
  /\ LET name == action_info(d).name
         md5sum == md5(chain[d].archive)
     IN  \E ok \in BOOLEAN :
           IF ok /\ remote[name].exists
           THEN /\ chain' = [chain EXCEPT
                       ![d].pc = "upload", ![d].md5sum = md5sum,
                       ![d].action = remote[name],
                       ![d].update = (index_existing_md5sum(remote[name].annotations) # md5sum)]
                /\ run' = run
           ELSE /\ chain' = [chain EXCEPT
                       ![d].pc = "rejected", ![d].md5sum = md5sum,
                       ![d].action = Absent]
                /\ run' = [run EXCEPT !.state = "failed"]
  /\ UNCHANGED <<config, fs, local, remote, foreign, platformKeeps, calls, recon, hist>>

check_action_update_action_check_existing(d) ==
  /\ Running /\ chain[d].pc = "check"
  /\ LET name == action_info(d).name
         md5sum == md5(chain[d].archive)
     IN  \E ok \in BOOLEAN :
           IF ok /\ remote[name].exists
           THEN chain' = [chain EXCEPT
                  ![d].pc = "upload", ![d].md5sum = md5sum,
                  ![d].action = remote[name],
                  ![d].update = (index_existing_md5sum(remote[name].annotations) # md5sum)]
           ELSE chain' = [chain EXCEPT
                  ![d].pc = "upload", ![d].md5sum = md5sum,
                  ![d].action = Absent, ![d].update = TRUE]
  /\ UNCHANGED <<config, fs, local, remote, foreign, platformKeeps, run, calls, recon, hist>>

\* check_action$update_action$update not chained behind the existence check.
check_action_update_action_update_unchained(d) ==
  /\ Running /\ chain[d].pc \in {"check", "upload"}
  /\ LET name == action_info(d).name
         update == chain[d].pc = "check" \/ chain[d].update
     IN  IF update
         THEN /\ calls' = [calls EXCEPT !.creates[name] = @ + 1]
              /\ \E ok \in BOOLEAN :
                   IF ok
                   THEN /\ remote' = PlatformPutCode(remote, name, chain[d].archive)
                        /\ chain' = [chain EXCEPT ![d].pc = "tag",
                                       ![d].result = remote'[name].annotations]
                        /\ run' = run
                   ELSE /\ remote' = remote
                        /\ chain' = [chain EXCEPT ![d].pc = "rejected"]
                        /\ run' = [run EXCEPT !.state = "failed"]
         ELSE /\ chain' = [chain EXCEPT ![d].pc = "resolved"]
              /\ UNCHANGED <<remote, calls, run>>
  /\ UNCHANGED <<config, fs, local, foreign, platformKeeps, recon, hist>>

\* check_action$update_action$update, first half: ow.actions.create with
\* the archive when exists.update, otherwise resolve at once.
check_action_update_action_update(d) ==
  /\ Running /\ chain[d].pc = "upload"
  /\ LET name == action_info(d).name
     IN  IF chain[d].update
         THEN /\ calls' = [calls EXCEPT !.creates[name] = @ + 1]
              /\ \E ok \in BOOLEAN :
                   IF ok
                   THEN /\ remote' = PlatformPutCode(remote, name, chain[d].archive)
                        /\ chain' = [chain EXCEPT ![d].pc = "tag",
                                       ![d].result = remote'[name].annotations]
                        /\ run' = run
                   ELSE /\ remote' = remote
                        /\ chain' = [chain EXCEPT ![d].pc = "rejected"]
                        /\ run' = [run EXCEPT !.state = "failed"]
         ELSE /\ chain' = [chain EXCEPT ![d].pc = "resolved"]
              /\ UNCHANGED <<remote, calls, run>>
  /\ UNCHANGED <<config, fs, local, foreign, platformKeeps, recon, hist>>

\* check_action$update_action$update, the .then of create: ow.actions.update
\* with the annotations of the result, of the configuration, and md5sum.
index_update_annotations(d) ==
  (chain[d].result \o action_info(d).annotations) \o <<Md5Annotation(chain[d].md5sum)>>

check_action_update_action_update_then(d) ==
  /\ Running /\ chain[d].pc = "tag"
  /\ LET name == action_info(d).name
     IN  /\ calls' = [calls EXCEPT !.updates[name] = @ + 1]
         /\ \E ok \in BOOLEAN :
              IF ok
              THEN /\ remote' = PlatformPutAnnotations(remote, name, index_update_annotations(d))
                   /\ chain' = [chain EXCEPT ![d].pc = "resolved"]
                   /\ run' = run
              ELSE /\ remote' = remote
                   /\ chain' = [chain EXCEPT ![d].pc = "rejected"]
                   /\ run' = [run EXCEPT !.state = "failed"]
  /\ UNCHANGED <<config, fs, local, foreign, platformKeeps, recon, hist>>

\* The run driver's last .then: Promise.all resolved, "DONE" is printed.
run_done ==
  /\ Running /\ run.state = "actions"
  /\ \A d \in Dirs : chain[d].pc = "resolved"
  /\ run' = [run EXCEPT !.state = "done"]
  /\ UNCHANGED <<config, fs, local, remote, foreign, platformKeeps, chain, calls, recon, hist>>

\* ------------------------------------------------------------ environment
\* The process is interrupted while it has work pending.
Interrupt ==
  /\ Running
  /\ run.state \in {"package", "created", "actions", "reconcile"}
       \/ (run.state = "failed" /\ \E d \in Dirs : InFlight(d))
  /\ run' = [run EXCEPT !.killed = TRUE]
  /\ UNCHANGED <<config, fs, local, remote, foreign, platformKeeps, chain, calls, recon, hist>>

ProcessOver ==
  \/ run.killed
  \/ run.state = "done"
  \/ run.state = "failed" /\ \A d \in Dirs : ~InFlight(d)

\* The tool is started again.
NewRun ==
  /\ ProcessOver /\ run.no < MaxRuns
  /\ run' = [no |-> run.no + 1, state |-> "init", killed |-> FALSE, root |-> run.root]
  /\ chain' = [d \in Dirs |-> ChainInit]
  /\ calls' = CallsInit
  /\ recon' = ReconInit
  /\ hist' = [prevDone |-> (run.state = "done" /\ ~run.killed),
              broken |-> (hist.broken \/ run.killed \/ run.state = "failed")]
  /\ UNCHANGED <<config, fs, local, remote, foreign, platformKeeps>>

\* The developer edits an action directory between two runs.
EditLocal ==
  /\ run.state = "init" /\ ~run.killed
  /\ \E d \in Dirs, c \in Contents :
       /\ c # local[d]
       /\ local' = [local EXCEPT ![d] = c]
  /\ hist' = [prevDone |-> FALSE, broken |-> FALSE]
  /\ UNCHANGED <<config, fs, remote, foreign, platformKeeps, run, chain, calls, recon>>

Next ==
  \/ check_package_from_dir
  \/ check_package
  \/ check_actions_from_dir
  \/ \E d \in Dirs : check_action_npm_install(d)
  \/ \E d \in Dirs : check_action_create_archive(d)
  \/ \E d \in Dirs : check_action_update_action_check_existing(d)
  \/ \E d \in Dirs : check_action_update_action_update(d)
  \/ \E d \in Dirs : check_action_update_action_update_then(d)
  \/ run_done
  \/ Interrupt
  \/ NewRun

Spec == Init /\ [][Next]_vars

\* The run driver over a root whose openwhisk.action.json files may give
\* two directories one name.
InitNames ==
  /\ InitCommon({TRUE}, ActionNameConfigurations)
  /\ foreign = {}

SpecNames == InitNames /\ [][Next]_vars

\* ======================================================== src/tasks.js
\* The tasks run one action at a time: the next directory's chain starts
\* when every earlier one is resolved, and openwhisk$delete_actions runs
\* after the last.
InitTasks ==
  /\ InitCommon({TRUE}, {basenames})
  /\ foreign \in {{}, {"c"}}

\* openwhisk$create_package is called.
tasks_start ==
  /\ Running /\ run.state = "init"
  /\ run' = [run EXCEPT !.state = "package"]
  /\ calls' = [calls EXCEPT !.package = @ + 1]
  /\ UNCHANGED <<config, fs, local, remote, foreign, platformKeeps, chain, recon, hist>>

\* openwhisk$create_package: ow.packages.create resolves or rejects.
openwhisk_create_package ==
  /\ Running /\ run.state = "package"
  /\ \E ok \in BOOLEAN :
       /\ run' = [run EXCEPT !.state = IF ok THEN "actions" ELSE "failed"]
       /\ calls' = [calls EXCEPT !.packaged = IF ok THEN "ok" ELSE "failed"]
  /\ UNCHANGED <<config, fs, local, remote, foreign, platformKeeps, chain, recon, hist>>

\* The next directory is taken up: its chain begins with npm_install.
tasks_next_action ==
  /\ Running /\ run.state = "actions"
  /\ \E i \in 1..Len(DirOrder) :
       /\ chain[DirOrder[i]].pc = "idle"
       /\ \A j \in 1..(i - 1) : chain[DirOrder[j]].pc = "resolved"
       /\ chain' = [chain EXCEPT ![DirOrder[i]].pc = "npm"]
  /\ UNCHANGED <<config, fs, local, remote, foreign, platformKeeps, run, calls, recon, hist>>

\* npm_install: the exec callback resolves whatever `error` is.
npm_install(d) ==
  /\ Running /\ chain[d].pc = "npm"
  /\ \E error \in BOOLEAN :
       chain' = [chain EXCEPT ![d].pc = "archive", ![d].npmError = error]
  /\ UNCHANGED <<config, fs, local, remote, foreign, platformKeeps, run, calls, recon, hist>>

\* create_zip_archive: resolves with the zip file or rejects.
create_zip_archive(d) ==
  /\ Running /\ chain[d].pc = "archive"
  /\ \E ok \in BOOLEAN :
       IF ok
       THEN /\ chain' = [chain EXCEPT ![d].pc = "md5", ![d].archive = local[d]]
            /\ run' = run
       ELSE /\ chain' = [chain EXCEPT ![d].pc = "rejected"]
            /\ run' = [run EXCEPT !.state = "failed"]
  /\ UNCHANGED <<config, fs, local, remote, foreign, platformKeeps, calls, recon, hist>>

\* create_md5sum: the digest of the directory's files.
create_md5sum(d) ==
  /\ Running /\ chain[d].pc = "md5"
  /\ chain' = [chain EXCEPT ![d].pc = "check", ![d].md5sum = md5(local[d])]
  /\ UNCHANGED <<config, fs, local, remote, foreign, platformKeeps, run, calls, recon, hist>>

\* openwhisk$check_existing_action
existing_md5sum(annotations) == get_first_value(annotations, "md5sum", "n/a")

openwhisk_check_existing_action(d) ==
  /\ Running /\ chain[d].pc = "check"
  /\ LET name == action_info(d).name
     IN  \E ok \in BOOLEAN :
           IF ok /\ remote[name].exists
           THEN chain' = [chain EXCEPT
                  ![d].pc = "upload", ![d].action = remote[name],
                  ![d].update = (existing_md5sum(remote[name].annotations) # chain[d].md5sum)]
           ELSE chain' = [chain EXCEPT
                  ![d].pc = "upload", ![d].action = Absent, ![d].update = TRUE]
  /\ UNCHANGED <<config, fs, local, remote, foreign, platformKeeps, run, calls, recon, hist>>

\* openwhisk$upload_action without the test of action.update.
openwhisk_upload_action_always(d) ==
  /\ Running /\ chain[d].pc = "upload"
  /\ LET name == action_info(d).name
     IN  /\ calls' = [calls EXCEPT !.creates[name] = @ + 1]
         /\ \E ok \in BOOLEAN :
              IF ok
              THEN /\ remote' = PlatformPutCode(remote, name, chain[d].archive)
                   /\ chain' = [chain EXCEPT ![d].pc = "tag",
                                  ![d].result = remote'[name].annotations]
                   /\ run' = run
              ELSE /\ remote' = remote
                   /\ chain' = [chain EXCEPT ![d].pc = "rejected"]
                   /\ run' = [run EXCEPT !.state = "failed"]
  /\ UNCHANGED <<config, fs, local, foreign, platformKeeps, recon, hist>>

\* openwhisk$upload_action, first half: ow.actions.create with the archive
\* when action.update, otherwise resolve at once.
openwhisk_upload_action(d) ==
  /\ Running /\ chain[d].pc = "upload"
  /\ LET name == action_info(d).name
     IN  IF chain[d].update
         THEN /\ calls' = [calls EXCEPT !.creates[name] = @ + 1]
              /\ \E ok \in BOOLEAN :
                   IF ok
                   THEN /\ remote' = PlatformPutCode(remote, name, chain[d].archive)
                        /\ chain' = [chain EXCEPT ![d].pc = "tag",
                                       ![d].result = remote'[name].annotations]
                        /\ run' = run
                   ELSE /\ remote' = remote
                        /\ chain' = [chain EXCEPT ![d].pc = "rejected"]
                        /\ run' = [run EXCEPT !.state = "failed"]
         ELSE /\ chain' = [chain EXCEPT ![d].pc = "resolved"]
              /\ UNCHANGED <<remote, calls, run>>
  /\ UNCHANGED <<config, fs, local, foreign, platformKeeps, recon, hist>>

\* openwhisk$upload_action with the md5sum entry put in front of the
\* annotations instead of after them.
upload_annotations_md5sum_first(d) ==
  <<Md5Annotation(chain[d].md5sum)>> \o (chain[d].result \o action_info(d).annotations)

\* openwhisk$upload_action, the .then of create: ow.actions.update with the
\* annotations of the result, of the options, and md5sum.
upload_annotations(d) ==
  (chain[d].result \o action_info(d).annotations) \o <<Md5Annotation(chain[d].md5sum)>>

openwhisk_upload_action_then(d) ==
  /\ Running /\ chain[d].pc = "tag"
  /\ LET name == action_info(d).name
     IN  /\ calls' = [calls EXCEPT !.updates[name] = @ + 1]
         /\ \E ok \in BOOLEAN :
              IF ok
              THEN /\ remote' = PlatformPutAnnotations(remote, name, upload_annotations(d))
                   /\ chain' = [chain EXCEPT ![d].pc = "resolved"]
                   /\ run' = run
              ELSE /\ remote' = remote
                   /\ chain' = [chain EXCEPT ![d].pc = "rejected"]
                   /\ run' = [run EXCEPT !.state = "failed"]
  /\ UNCHANGED <<config, fs, local, foreign, platformKeeps, recon, hist>>

\* The names of the processed actions, in processing order.
processed_names ==
  LET F[i \in 0..Len(DirOrder)] ==
        IF i = 0 THEN <<>>
        ELSE IF chain[DirOrder[i]].pc = "resolved"
             THEN Append(F[i - 1], action_info(DirOrder[i]).name) ELSE F[i - 1]
  IN  F[Len(DirOrder)]

\* openwhisk$delete_actions called as soon as some action is resolved.
tasks_reconcile_partial ==
  /\ Running /\ run.state = "actions"
  /\ \E d \in Dirs : chain[d].pc = "resolved"
  /\ run' = [run EXCEPT !.state = "reconcile"]
  /\ recon' = [recon EXCEPT !.pc = "list"]
  /\ UNCHANGED <<config, fs, local, remote, foreign, platformKeeps, chain, calls, hist>>

\* Every action is resolved: openwhisk$delete_actions is called.
tasks_reconcile ==
  /\ Running /\ run.state = "actions"
  /\ \A d \in Dirs : chain[d].pc = "resolved"
  /\ run' = [run EXCEPT !.state = "reconcile"]
  /\ recon' = [recon EXCEPT !.pc = "list"]
  /\ UNCHANGED <<config, fs, local, remote, foreign, platformKeeps, chain, calls, hist>>

\* What ow.actions.list() resolves with: the actions of the namespace, of
\* every package.
NameOrder == <<"a", "b", "c", "d">>
existing_actions ==
  LET own == SelectSeq(NameOrder, LAMBDA n : remote[n].exists)
      oth == SelectSeq(NameOrder, LAMBDA n : n \in foreign)
  IN  [i \in 1..Len(own) |-> [name |-> own[i], namespace |-> Namespace(package_name)]]
      \o [i \in 1..Len(oth) |-> [name |-> oth[i], namespace |-> Namespace(other_package)]]

\* .filter(action => action.namespace.indexOf(`/${package_name}`) > -1)
namespace_filter(action) == indexOf(action.namespace, <<"/">> \o package_name) > -1

\* .map('name').filter(name => _.indexOf(actions, name) < 0)
orphans(listed, actions) ==
  LET inPackage == SelectSeq(listed, namespace_filter)
      names == [i \in 1..Len(inPackage) |-> inPackage[i].name]
  IN  SelectSeq(names, LAMBDA name : \A j \in 1..Len(actions) : actions[j] # name)

\* openwhisk$delete_actions: ow.actions.list() and the two filters.
openwhisk_delete_actions_list ==
  /\ Running /\ recon.pc = "list"
  /\ \E ok \in BOOLEAN :
       IF ok
       THEN /\ recon' = [recon EXCEPT !.pc = "deleting",
                           !.orphans = orphans(existing_actions, processed_names),
                           !.queue = orphans(existing_actions, processed_names),
                           !.listed = {n \in Names : remote[n].exists}]
            /\ run' = run
       ELSE /\ recon' = [recon EXCEPT !.pc = "rejected"]
            /\ run' = [run EXCEPT !.state = "failed"]
  /\ UNCHANGED <<config, fs, local, remote, foreign, platformKeeps, chain, calls, hist>>

\* delete_actions(actions) with a head: ow.actions.delete of the head, then
\* the tail; a rejected delete rejects the whole chain.
delete_actions_head ==
  /\ Running /\ recon.pc = "deleting" /\ Len(recon.queue) > 0
  /\ LET action == Head(recon.queue)
     IN  /\ calls' = [calls EXCEPT !.deletes = Append(@, action)]
         /\ \E ok \in BOOLEAN :
              IF ok /\ remote[action].exists
              THEN /\ remote' = [remote EXCEPT ![action] = Absent]
                   /\ recon' = [recon EXCEPT !.queue = Tail(@)]
                   /\ run' = run
              ELSE /\ remote' = remote
                   /\ recon' = [recon EXCEPT !.pc = "rejected", !.failed = Append(@, action)]
                   /\ run' = [run EXCEPT !.state = "failed"]
  /\ UNCHANGED <<config, fs, local, foreign, platformKeeps, chain, hist>>

\* delete_actions(actions) without a head resolves; "Done cleaning", and
\* the run is complete.
delete_actions_empty ==
  /\ Running /\ recon.pc = "deleting" /\ Len(recon.queue) = 0
  /\ recon' = [recon EXCEPT !.pc = "done"]
  /\ run' = [run EXCEPT !.state = "done"]
  /\ UNCHANGED <<config, fs, local, remote, foreign, platformKeeps, chain, calls, hist>>

NextTasks ==
  \/ tasks_start
  \/ openwhisk_create_package
  \/ tasks_next_action
  \/ \E d \in Dirs : npm_install(d)
  \/ \E d \in Dirs : create_zip_archive(d)
  \/ \E d \in Dirs : create_md5sum(d)
  \/ \E d \in Dirs : openwhisk_check_existing_action(d)
  \/ \E d \in Dirs : openwhisk_upload_action(d)
  \/ \E d \in Dirs : openwhisk_upload_action_then(d)
  \/ tasks_reconcile
  \/ openwhisk_delete_actions_list
  \/ delete_actions_head
  \/ delete_actions_empty
  \/ Interrupt
  \/ NewRun
  \/ EditLocal

SpecTasks == InitTasks /\ [][NextTasks]_vars

\* ================================================================ claims
LocalNames == {action_info(d).name : d \in Dirs}
RemoteNames == {n \in Names : remote[n].exists}
CheckReturned(d) == chain[d].pc \in {"upload", "tag", "resolved"}
RangeOf(seq) == {seq[i] : i \in 1..Len(seq)}

\* C1: the existence check yields update = TRUE exactly when the get found
\* no action of that name or the md5sum recorded on the action it found
\* differs from the local md5sum; with an equal recorded md5sum it is FALSE.
C1_UpdateIffAbsentOrDiffers ==
  \A d \in Dirs :
    CheckReturned(d) =>
      (chain[d].update <=>
         (~chain[d].action.exists \/ Recorded(chain[d].action) # chain[d].md5sum))

\* C2: in a run that follows a successfully completed run over the same
\* tree, no actions.create, no actions.update and no delete call is made.
C2_SecondRunMakesNoCalls ==
  hist.prevDone =>
    /\ \A n \in Names : calls.creates[n] = 0 /\ calls.updates[n] = 0
    /\ calls.deletes = <<>>

\* C3: an action whose recorded md5sum differs from the local one is
\* uploaded exactly once in the run, and once its upload has completed the
\* md5sum the existence check selects from the remote action is the local
\* md5sum.
C3_UploadGating ==
  /\ \A n \in Names : calls.creates[n] <= 1
  /\ \A d \in Dirs :
       (/\ chain[d].pc = "resolved"
        /\ chain[d].action.exists
        /\ Recorded(chain[d].action) # chain[d].md5sum)
       => LET name == action_info(d).name
          IN  /\ calls.creates[name] = 1
              /\ remote[name].exists
              /\ remote[name].code = local[d]
              /\ existing_md5sum(remote[name].annotations) = md5(local[d])

\* C3, its case: an upload has completed over an action that carried
\* another md5sum, on a platform that kept that annotation.
C3_Witness ==
  \E d \in Dirs :
    /\ chain[d].pc = "resolved" /\ platformKeeps
    /\ chain[d].action.exists
    /\ Recorded(chain[d].action) \notin {"none", chain[d].md5sum}

\* C4: every delete call of the reconciliation is for a remote action of
\* the package that is not a processed name, no name is deleted twice, and
\* when reconciliation is done every such action has been deleted.
C4_DeletesExactlyOrphans ==
  LET want == recon.listed \ RangeOf(processed_names)
  IN  /\ \A i \in 1..Len(calls.deletes) :
           /\ calls.deletes[i] \in want
           /\ \A j \in 1..Len(calls.deletes) : calls.deletes[j] = calls.deletes[i] => j = i
      /\ recon.pc = "done" => RangeOf(calls.deletes) = want

\* C5: after a run that completed, the actions of the package are exactly
\* the actions of the local tree.
C5_RemoteEqualsLocalWhenDone ==
  run.state = "done" => RemoteNames = LocalNames

\* C6: never are two actions in flight at once.
C6_OneActionInFlight ==
  \A d1, d2 \in Dirs : InFlight(d1) /\ InFlight(d2) => d1 = d2

\* C7: in every remote state an action's recorded md5sum is the md5sum of
\* the code it carries.
C7_CodeAndMd5sumAgree ==
  \A n \in Names : remote[n].exists => Recorded(remote[n]) = md5(remote[n].code)

\* C8: a complete run after an interrupted or failed one, over the tree that
\* run had, leaves every local action remote with the local code and md5sum;
\* and no run skips an action whose remote code is not the local code.
C8_RecoveryByRerun ==
  /\ (run.state = "done" /\ hist.broken) =>
       \A d \in Dirs :
         LET name == action_info(d).name
         IN  /\ remote[name].exists
             /\ remote[name].code = local[d]
             /\ Recorded(remote[name]) = md5(local[d])
  /\ \A d \in Dirs :
       (chain[d].pc = "resolved" /\ ~chain[d].update) =>
          remote[action_info(d).name].code = local[d]

\* C9: when the npm install of an action has failed, the run is failed, that
\* action gets no existence check and no upload, and no later directory's
\* build is invoked.
C9_FailFastOnBuildFailure ==
  \A i \in 1..Len(DirOrder) :
    chain[DirOrder[i]].npmError =>
      /\ run.state = "failed"
      /\ ~CheckReturned(DirOrder[i])
      /\ \A j \in (i + 1)..Len(DirOrder) : chain[DirOrder[j]].pc = "idle"

\* C10: when the delete of one orphan has failed, the delete of every
\* remaining orphan is still attempted before reconciliation ends (stated
\* for a namespace that holds the target package only).
C10_DeleteFailureDoesNotStopLoop ==
  (foreign = {} /\ recon.pc = "rejected" /\ Len(recon.failed) > 0) =>
    RangeOf(calls.deletes) = RangeOf(recon.orphans)

\* C11: reconciliation considers only listed actions whose namespace is the
\* target package: no listed action of another package passes the namespace
\* filter, and every delete call is for an action listed under the target
\* package.
C11_OnlyTargetPackageConsidered ==
  /\ recon.pc = "list" =>
       \A i \in 1..Len(existing_actions) :
         namespace_filter(existing_actions[i]) =>
           existing_actions[i].namespace = Namespace(package_name)
  /\ \A i \in 1..Len(calls.deletes) : calls.deletes[i] \in recon.listed

NoRemoteCall(c) ==
  /\ c.package = 0
  /\ \A n \in Names : c.creates[n] = 0 /\ c.updates[n] = 0
  /\ c.deletes = <<>>

\* C12: the package call is made once per run and has succeeded before any
\* action's build, check or upload begins; when it fails the run is failed
\* and no action is processed.
C12_PackageBeforeActions ==
  /\ calls.package <= 1
  /\ \A d \in Dirs : chain[d].pc # "idle" => calls.packaged = "ok"
  /\ calls.packaged # "ok" =>
       \A n \in Names : calls.creates[n] = 0 /\ calls.updates[n] = 0
  /\ calls.packaged = "failed" =>
       run.state = "failed" /\ \A d \in Dirs : chain[d].pc = "idle"

\* C12, its case: the package call has succeeded and the actions' chains run.
C12_Witness ==
  calls.packaged = "ok" /\ \E d \in Dirs : chain[d].pc = "tag"

\* C14: with a deployment root that is no directory the run fails and no
\* step makes a remote call or changes the remote state.
C14_NoRootNoRemoteCall ==
  [][~run'.root =>
       /\ remote' = remote
       /\ NoRemoteCall(calls')
       /\ run'.state \in {"init", "failed"}
       /\ \A d \in Dirs : chain'[d].pc = "idle"]_vars

\* C14, its case: the run over a root that is no directory has failed.
C14_Witness ==
  ~run.root /\ run.state = "failed"

\* An upload call of d's chain was rejected: the chain is rejected after its
\* existence check (a rejected archive leaves md5sum unset).
UploadRejected(d) == chain[d].pc = "rejected" /\ chain[d].md5sum # "none"

\* C13: when an upload call of the k-th action has been rejected the run is
\* failed, the actions before k are resolved, no step of an action after k
\* has been taken and no delete call is made.
C13_UploadFailureIsFatal ==
  \A k \in 1..Len(DirOrder) :
    UploadRejected(DirOrder[k]) =>
      /\ run.state = "failed"
      /\ \A j \in 1..(k - 1) : chain[DirOrder[j]].pc = "resolved"
      /\ \A j \in (k + 1)..Len(DirOrder) : chain[DirOrder[j]].pc = "idle"
      /\ calls.deletes = <<>>

\* =================================== src/tasks.js on the files of a directory
\* The directory, the two exclude lists of the configuration, nothing
\* computed yet; the deployment itself is not started.
InitFiles ==
  /\ fs \in {[FsInit EXCEPT !.tree = t, !.md5_ignorelist = x.md5sum,
                             !.zip_ignorelist = x.zip] :
               t \in [Files -> FileContents], x \in ExcludeConfigurations}
  /\ local = [d \in Dirs |-> "v1"]
  /\ remote = [n \in Names |-> Absent]
  /\ foreign = {}
  /\ platformKeeps = FALSE
  /\ run = [no |-> 1, state |-> "init", killed |-> FALSE, root |-> TRUE]
  /\ chain = [d \in Dirs |-> ChainInit]
  /\ calls = CallsInit
  /\ recon = ReconInit
  /\ hist = [prevDone |-> FALSE, broken |-> FALSE]
  /\ config = basenames

\* One file of the directory is written, added or removed.
files_edit ==
  /\ fs.edits < MaxEdits
  /\ \E f \in Files, c \in FileContents :
       /\ c # fs.tree[f]
       /\ fs' = [fs EXCEPT !.tree[f] = c, !.edits = @ + 1, !.zip = NoZip]
  /\ UNCHANGED <<config, local, remote, foreign, platformKeeps, run, chain, calls, recon, hist>>

\* create_md5sum(directory, ignorelist)
files_create_md5sum ==
  /\ \E order \in TraversalOrders :
       fs' = [fs EXCEPT
                !.md5 = [done |-> TRUE, tree |-> fs.tree,
                         files |-> read_filelist(fs.tree, order, fs.md5_ignorelist, "f"),
                         sorted |-> (order = alphabetical),
                         hash |-> files_md5sum(fs.tree, order, fs.md5_ignorelist)],
                !.edits = 0]
  /\ UNCHANGED <<config, local, remote, foreign, platformKeeps, run, chain, calls, recon, hist>>

\* create_zip_archive(directory, zip_file, ignorelist): the files appended.
files_create_zip_archive ==
  /\ \E order \in TraversalOrders :
       fs' = [fs EXCEPT
                !.zip = [done |-> TRUE,
                         files |-> read_filelist(fs.tree, order, fs.zip_ignorelist, "f")]]
  /\ UNCHANGED <<config, local, remote, foreign, platformKeeps, run, chain, calls, recon, hist>>

NextFiles ==
  \/ files_edit
  \/ files_create_md5sum
  \/ files_create_zip_archive

SpecFiles == InitFiles /\ [][NextFiles]_vars

\* C15: the digest create_md5sum returned is the digest it returns for every
\* order in which the directory's entries may be reported.
C15_FingerprintDeterminism ==
  fs.md5.done =>
    \A order \in TraversalOrders :
      files_md5sum(fs.md5.tree, order, fs.md5_ignorelist) = fs.md5.hash

\* C15, its case: a digest over two files or more, computed from a listing
\* that was not reported in alphabetical order.
C15_Witness ==
  fs.md5.done /\ ~fs.md5.sorted /\ Len(fs.md5.files) >= 2

\* The files whose content, or presence, differs between two trees.
Changed(t1, t2) == {f \in Files : t1[f] # t2[f]}

\* C16: between two calls of create_md5sum, a change to one file that the
\* exclude list does not match changes the digest, and changes to files the
\* exclude list matches leave it as it was.
C16_FingerprintSensitivity ==
  [][(fs.md5.done /\ fs'.md5.done) =>
       LET D == Changed(fs.md5.tree, fs'.md5.tree)
       IN  /\ (Cardinality(D) = 1 /\ \A f \in D : ~ignored(f, fs.md5_ignorelist))
                => fs'.md5.hash # fs.md5.hash
           /\ (D # {} /\ \A f \in D : ignored(f, fs.md5_ignorelist))
                => fs'.md5.hash = fs.md5.hash]_vars

C18_ReconcileAfterAllResolved ==
  (recon.pc # "idle" \/ calls.deletes # <<>>) =>
    \A d \in Dirs : chain[d].pc = "resolved"

\* C18, its case: a delete call was made.
C18_Witness ==
  Len(calls.deletes) > 0

\* C19: for each action, the archive is built after npm install has run, the
\* md5sum is taken of a built archive, the existence check is issued with a
\* built archive, and the create call is issued only when the existence
\* check has returned and decided for the upload.
C19_StepsInOrder ==
  \A d \in Dirs :
    /\ chain[d].archive # "none" => chain[d].pc \notin {"idle", "npm", "archive"}
    /\ chain[d].pc = "check" => chain[d].archive # "none"
    /\ chain[d].md5sum # "none" => chain[d].archive # "none"
    /\ CheckReturned(d) => chain[d].md5sum # "none"
    /\ calls.creates[action_info(d).name] > 0 =>
         chain[d].md5sum # "none" /\ chain[d].update

\* C19, its case: an action went through every step and was uploaded.
C19_Witness ==
  \E d \in Dirs :
    chain[d].pc = "resolved" /\ calls.creates[action_info(d).name] > 0

\* C20: when the existence check of an action has returned with no existing
\* action (the get was rejected), update is true, the chain was not rejected
\* by the check, and the chain goes on to the create call.
C20_NotFoundIsNoError ==
  \A d \in Dirs :
    (chain[d].md5sum # "none" /\ ~chain[d].action.exists) =>
      /\ chain[d].update
      /\ chain[d].pc \in {"upload", "tag", "resolved", "rejected"}
      /\ chain[d].pc # "upload" => calls.creates[action_info(d).name] > 0

\* C20, its case: the get was rejected and the create call has been made.
C20_Witness ==
  \E d \in Dirs :
    /\ chain[d].md5sum # "none" /\ ~chain[d].action.exists
    /\ chain[d].pc = "tag"

\* C21: the upload step of an action whose update flag is false makes no
\* remote call, leaves the remote actions as they are, and resolves the
\* action's chain.
C21_NoUploadWhenUpToDate ==
  [][\A d \in Dirs :
       (/\ chain[d].pc = "upload" /\ ~chain[d].update
        /\ chain'[d] # chain[d] /\ run'.no = run.no) =>
         /\ calls' = calls
         /\ remote' = remote
         /\ chain'[d].pc = "resolved"]_vars

\* C21, its case: an action was resolved with its update flag false.
C21_Witness ==
  \E d \in Dirs :
    /\ chain[d].pc = "resolved" /\ ~chain[d].update
    /\ chain[d].action.exists

\* The md5sum entries among the annotations of remote action n.
Md5Entries(n) == groupBy(remote[n].annotations, "md5sum")

\* C22: when a run is over, however it ended, every remote action carries
\* exactly one md5sum entry and its value is the md5sum of the action's code.
C22_OneMd5sumOfLatestUpload ==
  ProcessOver =>
    \A n \in Names :
      remote[n].exists =>
        /\ Len(Md5Entries(n)) = 1
        /\ Md5Entries(n)[1].value = md5(remote[n].code)

\* C23: when a run has completed, every action processed in it is remote and
\* its recorded md5sum is the md5sum of the code it carries, whatever the
\* interleaving of the chains and also when two directories have one name.
C23_Md5sumOfStoredCodeWhenDone ==
  run.state = "done" =>
    \A d \in Dirs :
      LET name == action_info(d).name
      IN  /\ remote[name].exists
          /\ Recorded(remote[name]) = md5(remote[name].code)

====
